---- MODULE Spec2Model ----
(***************************************************************************)
(* DailyFileLogWriter (dailyfilelog.go): a log writer whose background     *)
(* goroutine receives records on a buffered channel and rotation requests  *)
(* on an unbuffered channel, rotates the file when the day changes or on   *)
(* request, archives the old file under a date-stamped name and gzips it.  *)
(*                                                                         *)
(* Text is modelled as a sequence of rendered pieces; a file is a record   *)
(* [exists, packed, data]; a file name is <<kind, year, month, day>>.      *)
(* The clock counts days; a day number is split into year, month and day   *)
(* of month the way time.Time's Year(), Month() and Day() split a date.    *)
(* I/O failures are injected where the code checks for an error (rename,   *)
(* gzip, OpenFile, the record write); a write or Close on a handle that    *)
(* was already closed fails, as os.File does.                              *)
(***************************************************************************)
EXTENDS Integers, Sequences, FiniteSets, TLC

\* ---------------------------------------------------------------- bounds
MaxDay == 2
DaysPerMonth == 2
MonthsPerYear == 2
LogBufferLength == 1
MaxRecords == 2
MaxRotateCalls == 1
MaxCloseCalls == 2

Procs == {"p1", "p2"}
RotateLimits == {0, 3}

VARIABLES
  now,          \* time.Now().UTC(), in days
  rotate_limit, \* w.rotate_limit
  header,       \* w.header
  trailer,      \* w.trailer
  filedate,     \* w.filedate
  file,         \* w.file: 0 is nil, h > 0 is the h-th handle opened
  closes,       \* closes[h]: how many times Close() was called on handle h
  fs,           \* the file system: name -> [exists, packed, data]
  rec,          \* w.rec, the buffered record channel
  recClosed,    \* close(w.rec) has happened
  pc,           \* pc[p]: where producer p stands
  arg,          \* arg[p]: the record p is sending in LogWrite
  lp,           \* where the constructor / the background goroutine stands
  ctx,          \* who called intRotate: "ctor", "rot" or "rec"
  cur,          \* the record the loop has dequeued and not yet written
  panicked,     \* "" or the operation whose panic ended the process
  errs,         \* lines the loop printed on os.Stderr
  enq,          \* history: records in the order they entered w.rec
  written,      \* history: records the loop wrote, in order
  base,         \* history: Len(written) when the current handle was opened
  openLen,      \* history: length of the file right after the current open
  gzipRuns,     \* history: times the compressor was started
  archived,     \* history: rotations that renamed and compressed a file
  calls,        \* history: calls[op]: calls of the public operation op so far
  script        \* where a scripted caller stands ("start" when callers are free)

vars == <<now, rotate_limit, header, trailer, filedate, file, closes, fs, rec,
          recClosed, pc, arg, lp, ctx, cur, panicked, errs, enq, written, base,
          openLen, gzipRuns, archived, calls, script>>

\* ------------------------------------------------------------ time.Time
Year(t) == t \div (DaysPerMonth * MonthsPerYear)
Month(t) == ((t \div DaysPerMonth) % MonthsPerYear) + 1
Day(t) == (t % DaysPerMonth) + 1
\* the calendar date of t, as <<year, month, day>>
Date(t) == <<Year(t), Month(t), Day(t)>>

\* ------------------------------------------------------------ rendering
Format == "[%D %T] [%L] (%S) %M"
NoRecord == [Created |-> 0, Message |-> 0]

\* FormatLogRecord(format, rec): the text of one record under a template;
\* an empty template renders the empty text.
FormatLogRecord(format, r) ==
  IF format = "" THEN <<>>
  ELSE <<[tpl |-> format, created |-> r.Created, msg |-> r.Message]>>

\* ---------------------------------------------------------- file system
NoFile == [exists |-> FALSE, packed |-> FALSE, data |-> <<>>]
LogName == <<"log", 0, 0, 0>>
\* fmt.Sprintf("%s.%04d-%02d-%02d", w.filename, Year, Month, Day)
ArchiveName(t) == <<"arc", Year(t), Month(t), Day(t)>>
\* gzip turns fname into fname.gz
GzName(n) == <<"gz", n[2], n[3], n[4]>>
Names == {LogName} \cup {ArchiveName(t) : t \in 0..MaxDay}
                   \cup {GzName(ArchiveName(t)) : t \in 0..MaxDay}
Archives == {n \in Names : n[1] # "log" /\ fs[n].exists}

IsOpen(h) == h # 0 /\ closes[h] = 0

\* fmt.Fprint(w.file, text) on handle h: the text is appended to the file the
\* handle was opened on (always the one at w.filename: the code renames it
\* only after closing the handle); on a closed handle nothing is written.
Fprint(files, h, text) ==
  IF IsOpen(h)
  THEN [files EXCEPT ![LogName].data = @ \o text]
  ELSE files

\* h.Close(): counted also when the handle is already closed
CloseHandle(cl, h) == [cl EXCEPT ![h] = @ + 1]

Init ==
  /\ now = 0
  /\ rotate_limit \in RotateLimits
  /\ header = ""
  /\ trailer = ""
  /\ filedate = 0
  /\ file = 0
  /\ closes = <<>>
  /\ fs \in {[n \in Names |-> NoFile],
             [n \in Names |-> IF n = LogName
                THEN [exists |-> TRUE, packed |-> FALSE,
                      data |-> FormatLogRecord("old", NoRecord)]
                ELSE NoFile]}
  /\ rec = <<>>
  /\ recClosed = FALSE
  /\ pc = [p \in Procs |-> "idle"]
  /\ arg = [p \in Procs |-> NoRecord]
  /\ lp = "irClose"
  /\ ctx = "ctor"
  /\ cur = NoRecord
  /\ panicked = ""
  /\ errs = 0
  /\ enq = <<>>
  /\ written = <<>>
  /\ base = 0
  /\ openLen = 0
  /\ gzipRuns = 0
  /\ archived = 0
  /\ calls = [op \in {"LogWrite", "Rotate", "Close", "SetHeadFoot"} |-> 0]
  /\ script = "start"

Running == panicked = ""
\* NewDailyFileLogWriter has returned the writer
Constructed == ~(ctx = "ctor" /\ lp \in {"irClose", "irStat", "irGzip", "irOpen"})

\* time passes
Tick ==
  /\ Running
  /\ now < MaxDay
  /\ now' = now + 1
  /\ UNCHANGED <<rotate_limit, header, trailer, filedate, file, closes, fs, rec,
                 recClosed, pc, arg, lp, ctx, cur, panicked, errs, enq, written,
                 base, openLen, gzipRuns, archived, calls>>

\* ------------------------------------------------------------ intRotate
\* (w *DailyFileLogWriter) intRotate(), run by the constructor and by the loop

\* intRotate returns an error to its caller: the constructor panics, the
\* loop reports the error on os.Stderr and returns (its deferred function runs)
IrFailContinue ==
  /\ panicked' = IF ctx = "ctor" THEN "ctor" ELSE panicked
  /\ lp' = IF ctx = "ctor" THEN lp ELSE "select"
  /\ errs' = IF ctx = "ctor" THEN errs ELSE errs + 1
  /\ ctx' = ctx
IrFailIgnored ==
  /\ lp' = "irOpen"
  /\ UNCHANGED <<panicked, errs, ctx>>
IrFail ==
  /\ panicked' = IF ctx = "ctor" THEN "ctor" ELSE panicked
  /\ lp' = IF ctx = "ctor" THEN lp ELSE "defer"
  /\ errs' = IF ctx = "ctor" THEN errs ELSE errs + 1
  /\ ctx' = ctx

\* intRotate returns nil: the constructor starts the loop, the rotate case
\* goes back to the select, the record case goes on to the write
IrOk ==
  /\ lp' = IF ctx = "rec" THEN "write" ELSE "select"
  /\ ctx' = ""
  /\ UNCHANGED <<panicked, errs>>

\* the trailer is written and the handle closed, if there is a handle
IrCloseFiles ==
  IF file # 0
  THEN Fprint(fs, file, FormatLogRecord(trailer, [Created |-> now, Message |-> 0]))
  ELSE fs
IrCloseLeavesOpen == closes
IrCloseCloses == IF file # 0 THEN CloseHandle(closes, file) ELSE closes

IrClose ==
  /\ Running /\ lp = "irClose"
  /\ fs' = IrCloseFiles
  /\ closes' = IrCloseCloses
  /\ lp' = "irStat"
  /\ UNCHANGED <<now, rotate_limit, header, trailer, filedate, file, rec,
                 recClosed, pc, arg, ctx, cur, panicked, errs, enq, written,
                 base, openLen, gzipRuns, archived, calls>>

\* (nil != fi || os.IsExist(err)) && w.rotate_limit > 0
ShouldArchiveAnyLimit == fs[LogName].exists
ShouldArchive == fs[LogName].exists /\ rotate_limit > 0

\* os.Rename(w.filename, fname)
RenameCopy(files, from, to) == [files EXCEPT ![to] = files[from]]
Rename(files, from, to) == [files EXCEPT ![to] = files[from], ![from] = NoFile]

IrStat ==
  /\ Running /\ lp = "irStat"
  /\ IF ShouldArchive
     THEN \/ /\ fs' = Rename(fs, LogName, ArchiveName(filedate))
             /\ lp' = "irGzip"
             /\ UNCHANGED <<ctx, panicked, errs>>
          \/ /\ IrFail
             /\ fs' = fs
     ELSE /\ lp' = "irOpen"
          /\ UNCHANGED <<fs, ctx, panicked, errs>>
  /\ UNCHANGED <<now, rotate_limit, header, trailer, filedate, file, closes, rec,
                 recClosed, pc, arg, cur, enq, written, base, openLen, gzipRuns,
                 archived, calls>>

\* gzip --fast --force fname: fname.gz is written (over an existing one) and
\* fname removed
Gzip(files, n) ==
  [files EXCEPT ![GzName(n)] = [files[n] EXCEPT !.packed = TRUE], ![n] = NoFile]

IrGzip ==
  /\ Running /\ lp = "irGzip"
  /\ gzipRuns' = gzipRuns + 1
  /\ \/ /\ fs' = Gzip(fs, ArchiveName(filedate))
        /\ archived' = archived + 1
        /\ lp' = "irOpen"
        /\ UNCHANGED <<ctx, panicked, errs>>
     \/ /\ IrFail
        /\ UNCHANGED <<fs, archived>>
  /\ UNCHANGED <<now, rotate_limit, header, trailer, filedate, file, closes, rec,
                 recClosed, pc, arg, cur, enq, written, base, openLen, calls>>

\* os.OpenFile(w.filename, O_WRONLY|O_APPEND|O_CREATE): an existing file keeps
\* its content, a missing one is created empty
OpenFileTruncating(files) ==
  [files EXCEPT ![LogName] = [exists |-> TRUE, packed |-> FALSE, data |-> <<>>]]
OpenFile(files) ==
  IF files[LogName].exists THEN files
  ELSE [files EXCEPT ![LogName] = [exists |-> TRUE, packed |-> FALSE, data |-> <<>>]]

\* the file after the open and the header, rendered with Created = w.filedate
IrOpenFiles ==
  [OpenFile(fs) EXCEPT ![LogName].data =
     @ \o FormatLogRecord(header, [Created |-> now, Message |-> 0])]

IrOpen ==
  /\ Running /\ lp = "irOpen"
  /\ \/ /\ filedate' = now
        /\ file' = Len(closes) + 1
        /\ closes' = Append(closes, 0)
        /\ fs' = IrOpenFiles
        /\ base' = Len(written)
        /\ openLen' = Len(fs'[LogName].data)
        /\ IrOk
     \/ /\ IrFail
        /\ UNCHANGED <<filedate, file, closes, fs, base, openLen>>
  /\ UNCHANGED <<now, rotate_limit, header, trailer, rec, recClosed, pc, arg,
                 cur, enq, written, gzipRuns, archived, calls>>

\* ------------------------------------------------- the background goroutine
\* time.Now().UTC().Day() != w.filedate.Day()
DayChanged == Day(now) # Day(filedate)

\* the channel after a receive took its first record
DequeueKeep(q) == q
Dequeue(q) == Tail(q)

\* a receive from w.rec yields !ok: the channel is closed and nothing is left
NotOkAnyClosed == recClosed
NotOk == rec = <<>> /\ recClosed

\* case <-w.rot: the rendezvous with producer p, blocked in Rotate
LoopRecvRotAfterClose(p) ==
  /\ Running /\ lp = "select"
  /\ pc[p] = "Rotate"
  /\ pc' = [pc EXCEPT ![p] = "idle"]
  /\ fs' = IrCloseFiles
  /\ closes' = IrCloseCloses
  /\ lp' = "irStat"
  /\ ctx' = "rot"
  /\ UNCHANGED <<now, rotate_limit, header, trailer, filedate, file, rec,
                 recClosed, arg, cur, panicked, errs, enq, written, base,
                 openLen, gzipRuns, archived, calls>>
LoopRecvRotIfDayChanged(p) ==
  /\ Running /\ lp = "select"
  /\ pc[p] = "Rotate"
  /\ pc' = [pc EXCEPT ![p] = "idle"]
  /\ lp' = IF DayChanged THEN "irClose" ELSE "select"
  /\ ctx' = IF DayChanged THEN "rot" ELSE ctx
  /\ UNCHANGED <<now, rotate_limit, header, trailer, filedate, file, closes, fs,
                 rec, recClosed, arg, cur, panicked, errs, enq, written, base,
                 openLen, gzipRuns, archived, calls>>
LoopRecvRotBuffered(p) ==
  /\ Running
  /\ pc[p] = "Rotate"
  /\ pc' = [pc EXCEPT ![p] = "idle"]
  /\ lp' = IF lp = "select" THEN "irClose" ELSE lp
  /\ ctx' = IF lp = "select" THEN "rot" ELSE ctx
  /\ UNCHANGED <<now, rotate_limit, header, trailer, filedate, file, closes, fs,
                 rec, recClosed, arg, cur, panicked, errs, enq, written, base,
                 openLen, gzipRuns, archived, calls>>
LoopRecvRot(p) ==
  /\ Running /\ lp = "select"
  /\ pc[p] = "Rotate"
  /\ pc' = [pc EXCEPT ![p] = "idle"]
  /\ lp' = "irClose"
  /\ ctx' = "rot"
  /\ UNCHANGED <<now, rotate_limit, header, trailer, filedate, file, closes, fs,
                 rec, recClosed, arg, cur, panicked, errs, enq, written, base,
                 openLen, gzipRuns, archived, calls>>

\* case rec, ok := <-w.rec with ok: a record is dequeued and the day compared
LoopRecvRec ==
  /\ Running /\ lp = "select"
  /\ rec # <<>>
  /\ cur' = Head(rec)
  /\ rec' = Dequeue(rec)
  /\ lp' = IF DayChanged THEN "irClose" ELSE "write"
  /\ ctx' = IF DayChanged THEN "rec" ELSE ""
  /\ UNCHANGED <<now, rotate_limit, header, trailer, filedate, file, closes, fs,
                 recClosed, pc, arg, panicked, errs, enq, written, base, openLen,
                 gzipRuns, archived, calls>>

\* case rec, ok := <-w.rec with !ok: the channel is closed and empty
LoopRecvClosed ==
  /\ Running /\ lp = "select"
  /\ NotOk
  /\ lp' = "defer"
  /\ UNCHANGED <<now, rotate_limit, header, trailer, filedate, file, closes, fs,
                 rec, recClosed, pc, arg, ctx, cur, panicked, errs, enq, written,
                 base, openLen, gzipRuns, archived, calls>>

\* fmt.Fprint(w.file, FormatLogRecord(w.format, rec)) and its error check
LoopWrite ==
  /\ Running /\ lp = "write"
  /\ cur' = NoRecord
  /\ \/ /\ IsOpen(file)
        /\ fs' = Fprint(fs, file, FormatLogRecord(Format, cur))
        /\ written' = Append(written, cur.Message)
        /\ lp' = "select"
        /\ errs' = errs
     \/ /\ errs' = errs + 1
        /\ lp' = "defer"
        /\ UNCHANGED <<fs, written>>
  /\ UNCHANGED <<now, rotate_limit, header, trailer, filedate, file, closes, rec,
                 recClosed, pc, arg, ctx, panicked, enq, base, openLen, gzipRuns,
                 archived, calls>>

\* the deferred function: trailer and Close, if w.file is not nil
LoopDefer ==
  /\ Running /\ lp = "defer"
  /\ fs' = IrCloseFiles
  /\ closes' = IrCloseCloses
  /\ lp' = "done"
  /\ UNCHANGED <<now, rotate_limit, header, trailer, filedate, file, rec,
                 recClosed, pc, arg, ctx, cur, panicked, errs, enq, written,
                 base, openLen, gzipRuns, archived, calls>>

\* ------------------------------------------------------------ producers
\* the channel after w.rec <- r
Enqueue(q, r) == Append(q, r)

\* a producer calls LogWrite (none does once Close was called); pc[p] is
\* "LogWrite" while it stands at the send
CallLogWrite(p) ==
  /\ Running /\ Constructed
  /\ pc[p] = "idle"
  /\ calls["Close"] = 0
  /\ calls["LogWrite"] < MaxRecords
  /\ calls' = [calls EXCEPT !["LogWrite"] = @ + 1]
  /\ LET r == [Created |-> 0, Message |-> calls["LogWrite"] + 1] IN
       IF Len(rec) < LogBufferLength
       THEN /\ rec' = Enqueue(rec, r)
            /\ enq' = Append(enq, r.Message)
            /\ UNCHANGED <<pc, arg>>
       ELSE /\ arg' = [arg EXCEPT ![p] = r]
            /\ pc' = [pc EXCEPT ![p] = "LogWrite"]
            /\ UNCHANGED <<rec, enq>>
  /\ UNCHANGED <<now, rotate_limit, header, trailer, filedate, file, closes, fs,
                 recClosed, lp, ctx, cur, panicked, errs, written, base,
                 openLen, gzipRuns, archived>>

\* w.rec <- rec for a producer that found the buffer full: the send completes
\* when there is room, and panics when the channel is closed meanwhile
LogWrite(p) ==
  /\ Running
  /\ pc[p] = "LogWrite"
  /\ IF recClosed
     THEN /\ panicked' = "LogWrite"
          /\ UNCHANGED <<rec, enq, pc, arg>>
     ELSE /\ Len(rec) < LogBufferLength
          /\ rec' = Enqueue(rec, arg[p])
          /\ enq' = Append(enq, arg[p].Message)
          /\ pc' = [pc EXCEPT ![p] = "idle"]
          /\ arg' = [arg EXCEPT ![p] = NoRecord]
          /\ panicked' = panicked
  /\ UNCHANGED <<now, rotate_limit, header, trailer, filedate, file, closes, fs,
                 recClosed, lp, ctx, cur, errs, written, base, openLen, gzipRuns,
                 archived, calls>>

\* a producer calls Rotate and waits at w.rot <- true for the loop to receive
Rotate(p) ==
  /\ Running /\ Constructed
  /\ pc[p] = "idle"
  /\ calls["Rotate"] < MaxRotateCalls
  /\ calls' = [calls EXCEPT !["Rotate"] = @ + 1]
  /\ pc' = [pc EXCEPT ![p] = "Rotate"]
  /\ UNCHANGED <<now, rotate_limit, header, trailer, filedate, file, closes, fs,
                 rec, recClosed, arg, lp, ctx, cur, panicked, errs, enq, written,
                 base, openLen, gzipRuns, archived>>

\* Close, first statement: close(w.rec) panics on a channel already closed
Close(p) ==
  /\ Running /\ Constructed
  /\ pc[p] = "idle"
  /\ calls["Close"] < MaxCloseCalls
  /\ calls' = [calls EXCEPT !["Close"] = @ + 1]
  /\ IF recClosed
     THEN /\ panicked' = "Close"
          /\ UNCHANGED <<recClosed, pc>>
     ELSE /\ recClosed' = TRUE
          /\ pc' = [pc EXCEPT ![p] = "Sync"]
          /\ panicked' = panicked
  /\ UNCHANGED <<now, rotate_limit, header, trailer, filedate, file, closes, fs,
                 rec, arg, lp, ctx, cur, errs, enq, written, base, openLen,
                 gzipRuns, archived>>

\* Close, second statement: w.file.Sync() on the caller's thread, then return
CloseSync(p) ==
  /\ Running
  /\ pc[p] = "Sync"
  /\ pc' = [pc EXCEPT ![p] = "idle"]
  /\ UNCHANGED <<now, rotate_limit, header, trailer, filedate, file, closes, fs,
                 rec, recClosed, arg, lp, ctx, cur, panicked, errs, enq, written,
                 base, openLen, gzipRuns, archived, calls>>

\* SetHeadFoot, called before the first log message as its comment requires
SetHeadFoot(p) ==
  /\ Running /\ Constructed
  /\ pc[p] = "idle"
  /\ \A op \in DOMAIN calls : calls[op] = 0
  /\ calls' = [calls EXCEPT !["SetHeadFoot"] = @ + 1]
  /\ header' = "<log>"
  /\ trailer' = "</log>"
  /\ fs' = IF file # 0
           THEN Fprint(fs, file, FormatLogRecord(header', [Created |-> now, Message |-> 0]))
           ELSE fs
  /\ UNCHANGED <<now, rotate_limit, filedate, file, closes, rec, recClosed, pc,
                 arg, lp, ctx, cur, panicked, errs, enq, written, base, openLen,
                 gzipRuns, archived>>

Next ==
  \/ Tick /\ UNCHANGED script
  \/ IrClose /\ UNCHANGED script
  \/ IrStat /\ UNCHANGED script
  \/ IrGzip /\ UNCHANGED script
  \/ IrOpen /\ UNCHANGED script
  \/ \E p \in Procs : LoopRecvRot(p) /\ UNCHANGED script
  \/ LoopRecvRec /\ UNCHANGED script
  \/ LoopRecvClosed /\ UNCHANGED script
  \/ LoopWrite /\ UNCHANGED script
  \/ LoopDefer /\ UNCHANGED script
  \/ \E p \in Procs : CallLogWrite(p) /\ UNCHANGED script
  \/ \E p \in Procs : LogWrite(p) /\ UNCHANGED script
  \/ \E p \in Procs : Rotate(p) /\ UNCHANGED script
  \/ \E p \in Procs : Close(p) /\ UNCHANGED script
  \/ \E p \in Procs : CloseSync(p) /\ UNCHANGED script
  \/ \E p \in Procs : SetHeadFoot(p) /\ UNCHANGED script

Spec == Init /\ [][Next]_vars

\* a step of the constructor's intRotate or of the background goroutine
Loop ==
  /\ \/ IrClose \/ IrStat \/ IrGzip \/ IrOpen
     \/ \E p \in Procs : LoopRecvRot(p)
     \/ LoopRecvRec \/ LoopRecvClosed \/ LoopWrite \/ LoopDefer
  /\ UNCHANGED script

\* the goroutine is scheduled whenever it can take a step, and the
\* compressor returns
FairSpec == Spec /\ WF_vars(Loop)

\* ------------------------------------------------------- a scripted caller
\* One caller runs a fixed script against a writer with retention enabled: it
\* may set header and trailer first, then writes a record on day 0, calls
\* Rotate, and writes a record on day 1; the loop and the clock run freely in
\* between.  script remembers how far the caller is, and whether the loop had
\* already written the first record when Rotate was called.
Scripted == "p1"
ScriptSetHeadFoot ==
  /\ script = "start"
  /\ SetHeadFoot(Scripted)
  /\ UNCHANGED script
ScriptFirstWrite ==
  /\ script = "start"
  /\ now = 0
  /\ CallLogWrite(Scripted)
  /\ script' = "first"
ScriptRotate ==
  /\ script = "first"
  /\ Rotate(Scripted)
  /\ script' = IF written = <<1>> THEN "rotateAfterWrite" ELSE "rotate"
ScriptSecondWrite ==
  /\ script \in {"rotate", "rotateAfterWrite"}
  /\ now = 1
  /\ CallLogWrite(Scripted)
  /\ script' = IF script = "rotate" THEN "end" ELSE "endAfterWrite"

ScenarioInit == Init /\ rotate_limit > 0
ScenarioNext ==
  \/ Tick /\ UNCHANGED script
  \/ IrClose /\ UNCHANGED script
  \/ IrStat /\ UNCHANGED script
  \/ IrGzip /\ UNCHANGED script
  \/ IrOpen /\ UNCHANGED script
  \/ LoopRecvRot(Scripted) /\ UNCHANGED script
  \/ LoopRecvRec /\ UNCHANGED script
  \/ LoopWrite /\ UNCHANGED script
  \/ LoopDefer /\ UNCHANGED script
  \/ LogWrite(Scripted) /\ UNCHANGED script
  \/ ScriptSetHeadFoot
  \/ ScriptFirstWrite
  \/ ScriptRotate
  \/ ScriptSecondWrite
ScenarioSpec == ScenarioInit /\ [][ScenarioNext]_vars

\* ----------------------------------------------------- derived notions
\* the messages of the records rendered in a text, in order
Messages(text) ==
  LET r == SelectSeq(text, LAMBDA t : t.tpl = Format)
  IN  [i \in 1..Len(r) |-> r[i].msg]
\* what was appended to the file at w.filename since the current open
Appended == SubSeq(fs[LogName].data, openLen + 1, Len(fs[LogName].data))
\* the records that entered w.rec and are not yet written
Pending ==
  (IF cur = NoRecord THEN <<>> ELSE <<cur.Message>>)
    \o [i \in 1..Len(rec) |-> rec[i].Message]
\* the loop is inside a rotation it performs
InRotation == ctx \in {"rot", "rec"} /\ lp \in {"irClose", "irStat", "irGzip", "irOpen"}
\* a call of Close has returned
CloseReturned == recClosed /\ \A p \in Procs : pc[p] # "Sync"
Failed == errs > 0
Last(q) == q[Len(q)]
\* text ends with a rendering of the trailer template
EndsWithTrailer(text) ==
  trailer = "" \/ (text # <<>> /\ Last(text).tpl = trailer /\ Last(text).msg = 0)

\* --------------------------------------------------------------- claims

C2_RotatesIffDateDiffers ==
  [][(lp = "select" /\ cur' # cur)
       => ((lp' = "irClose") <=> (Date(now) # Date(filedate)))]_vars

\* C3: once Close has closed the channel, the loop eventually stops with
\* every record that entered the channel written, in channel order, and the
\* file ending with the trailer -- unless a rotation or a write fails, or the
\* process panics, on the way.
Drained ==
  /\ lp = "done"
  /\ rec = <<>> /\ cur = NoRecord
  /\ written = enq
  /\ EndsWithTrailer(fs[LogName].data)
C3_GracefulClose == recClosed ~> (Drained \/ Failed \/ ~Running)
\* Close was called with a record still queued behind the one being written
C3_Witness == recClosed /\ rec # <<>> /\ lp = "write" /\ trailer # "" /\ ~Failed

\* C4: when a call of Close has returned, the queue is drained, the trailer
\* written and the file closed.
C4_CloseIsSynchronous ==
  CloseReturned =>
     (rec = <<>> /\ cur = NoRecord /\ lp = "done" /\ ~IsOpen(file))

\* C5: no handle is closed twice, and once Close was called and the loop has
\* stopped the handle has been closed exactly once, after the trailer.
C5_ClosedExactlyOnce ==
  recClosed =>
    /\ \A h \in 1..Len(closes) : closes[h] <= 1
    /\ lp = "done" =>
         (file # 0 /\ closes[file] = 1 /\ EndsWithTrailer(fs[LogName].data))

\* C6: no call of Close panics.
C6_CloseNeverPanics == panicked # "Close"

\* C7 as stated: no producer stands in Rotate or LogWrite while the loop is
\* inside a rotation.
C7_NeverWaitsOnRotation ==
  ~(InRotation /\ \E p \in Procs : pc[p] \in {"Rotate", "LogWrite"})
\* C7 amended: Rotate returns at the rendezvous, when the rotation it asked
\* for has not yet touched the file; and whatever the loop is doing, a
\* LogWrite completes at once when the open channel has room.
C7_ReturnsBeforeOwnRotation ==
  /\ [][\A p \in Procs :
          (pc[p] = "Rotate" /\ pc'[p] = "idle")
            => (lp' = "irClose" /\ ctx' = "rot" /\ fs' = fs /\ closes' = closes)]_vars
  /\ [](\A p \in Procs :
          (Running /\ Constructed /\ ~recClosed /\ Len(rec) < LogBufferLength)
            => /\ pc[p] = "LogWrite" => ENABLED LogWrite(p)
               /\ (pc[p] = "idle" /\ calls["Close"] = 0
                     /\ calls["LogWrite"] < MaxRecords)
                    => ENABLED (CallLogWrite(p) /\ pc'[p] = "idle"))
\* Rotate has returned and a record was queued while the rotation it asked
\* for waits for the compressor
C7_Witness ==
  /\ lp = "irGzip" /\ ctx = "rot"
  /\ \A p \in Procs : pc[p] = "idle"
  /\ rec # <<>>

\* C8: with retention enabled and no failure, the archives are as many as
\* the rotations that archived a file.
C8_OneArchivePerRotation ==
  (rotate_limit > 0 /\ ~Failed /\ Running /\ lp # "irGzip")
     => Cardinality(Archives) = archived

\* C9: with rotate_limit = 0 there is never an archive and the compressor is
\* never started; and a rotation that finds no file at the path archives
\* nothing and goes straight to the open, whatever rotate_limit is.
C9_NoArchiveWithoutRetention ==
  /\ [](rotate_limit = 0 => (Archives = {} /\ gzipRuns = 0 /\ archived = 0))
  /\ [][(lp = "irStat" /\ ~fs[LogName].exists /\ lp' # lp)
          => (lp' = "irOpen" /\ fs' = fs /\ gzipRuns' = gzipRuns)]_vars
\* without retention: construction, an explicit and a date-triggered
\* rotation, records written, and the loop stopped after Close
C9_Witness ==
  /\ rotate_limit = 0
  /\ Len(closes) >= 3 /\ calls["Rotate"] >= 1
  /\ written # <<>>
  /\ recClosed /\ lp = "done"

\* C10 as stated: right after a successful rotation the file at the path
\* holds the header rendered at the new filedate and nothing else, and what
\* the loop rotated out ends with the trailer.
RotatedOut ==
  IF rotate_limit > 0
  THEN fs[GzName(ArchiveName(filedate))].data
  ELSE fs[LogName].data
NewHeader == FormatLogRecord(header, [Created |-> filedate', Message |-> 0])
ScriptHandled ==
  /\ script \in {"end", "endAfterWrite"}
  /\ Running /\ ~Failed
  /\ lp = "select" /\ rec = <<>> /\ cur = NoRecord
  /\ \A p \in Procs : pc[p] = "idle"
ScriptOutcome ==
  /\ \/ fs[ArchiveName(0)].exists
     \/ fs[GzName(ArchiveName(0))].exists
  /\ fs[LogName].data =
       FormatLogRecord(header, [Created |-> filedate, Message |-> 0])
         \o FormatLogRecord(Format, [Created |-> 0, Message |-> 2])
C11_ScenarioAnyInterleaving == ScriptHandled => ScriptOutcome
\* C11 amended: the outcome is reached in the runs where the loop had written
\* the first record before Rotate was called (and nothing failed); a first
\* record still queued at that time may be written after the rotation.
C11_ScenarioAfterFirstWritten ==
  (ScriptHandled /\ script = "endAfterWrite") => ScriptOutcome
\* the script is through, with header and trailer set, the first record
\* written before Rotate was called
C11_Witness ==
  /\ ScriptHandled /\ script = "endAfterWrite"
  /\ header # "" /\ written = <<1, 2>>

\* C12: once a rotation or a record write has failed in the loop, the error
\* was reported once and the loop is leaving (in its deferred function, whose
\* only step ends the loop, or done); from then on no record is written to
\* any file and no rotation is performed (no trailer-close-archive-open: no
\* rename, no compressor run, no new handle, no new filedate), whatever is
\* enqueued or requested.
RecordsIn(files) == [n \in Names |-> Messages(files[n].data)]
C12_FailStop ==
  /\ [](Failed => (errs = 1 /\ lp \in {"defer", "done"}))
  /\ []((Failed /\ lp = "defer" /\ Running) => ENABLED LoopDefer)
  /\ [][Failed => /\ lp' \in {lp, "done"}
                  /\ errs' = errs
                  /\ written' = written
                  /\ RecordsIn(fs') = RecordsIn(fs)
                  /\ [n \in Names |-> fs'[n].exists] = [n \in Names |-> fs[n].exists]
                  /\ gzipRuns' = gzipRuns /\ archived' = archived
                  /\ file' = file /\ filedate' = filedate
                  /\ Len(closes') = Len(closes)]_vars
\* the loop has ended after a failure while a record is queued and a caller
\* stands in Rotate
C12_Witness ==
  /\ Failed /\ lp = "done"
  /\ rec # <<>>
  /\ \E p \in Procs : pc[p] = "Rotate"

\* C13: while a caller stands in Rotate and the loop is at its select, the
\* loop dequeues no record: the rotation comes first.
C13_RotateFirst ==
  [][(lp = "select" /\ \E p \in Procs : pc[p] = "Rotate") => cur' = cur]_vars

\* C14: no caller touches w.file: no caller stands at a statement that
\* uses the handle (the w.file.Sync() of Close) while the loop is in a write,
\* in a rotation or in its closing function.
C14_OnlyLoopTouchesFile ==
  \A p \in Procs :
    pc[p] = "Sync" => lp \notin {"write", "irClose", "irStat", "irGzip", "irOpen", "defer"}

\* C15: at most one handle is open; when a rotation opens a handle, every
\* earlier handle is closed; a rotation is in progress only in the one loop
\* (or in the constructor, before any caller and the loop run).
OpenHandles == {h \in 1..Len(closes) : closes[h] = 0}
C15_OneOpenHandle ==
  /\ [](Cardinality(OpenHandles) <= 1)
  /\ [](~Constructed => /\ \A p \in Procs : pc[p] = "idle"
                        /\ \A op \in DOMAIN calls : calls[op] = 0)
  /\ [][Len(closes') > Len(closes)
         => /\ OpenHandles = {}
            /\ lp = "irOpen"
            /\ OpenHandles' = {Len(closes')}]_vars
\* the third handle of the writer is open, the two before it are closed
C15_Witness ==
  /\ Len(closes) >= 3
  /\ OpenHandles = {file}

\* C16: a step of intRotate in which the rename or the compressor fails ends
\* the rotation with the error (the loop goes to its closing function, the
\* constructor panics): nothing is opened or created at the path, no header
\* is written, filedate keeps its value; after a failed compressor run there
\* is no file at the path and no open handle.
RenameFails == lp = "irStat" /\ ShouldArchive /\ lp' # lp /\ fs' = fs
GzipFails == lp = "irGzip" /\ gzipRuns' # gzipRuns /\ archived' = archived
C16_AbortedRotation ==
  /\ [][(RenameFails \/ GzipFails)
         => /\ lp' = "defer" \/ panicked' = "ctor"
            /\ file' = file /\ closes' = closes
            /\ filedate' = filedate
            /\ fs' = fs]_vars
  /\ [](gzipRuns > archived => /\ ~fs[LogName].exists
                               /\ ~IsOpen(file)
                               /\ ~Running \/ lp \in {"defer", "done"})
\* the compressor has failed in a rotation of the loop on a later day than
\* the file was opened, and the loop has ended
C16_Witness ==
  /\ gzipRuns > archived
  /\ lp = "done"
  /\ filedate # now
  /\ fs[ArchiveName(filedate)].exists

\* C17: each rotate signal the loop receives starts one rotation, whatever
\* the date, and each rotation of the rotate case is started by one signal:
\* a step releases a caller from Rotate exactly when the loop goes from its
\* select into intRotate for the rotate case, and it releases one caller.
SignalReceived == \E p \in Procs : pc[p] = "Rotate" /\ pc'[p] # "Rotate"
RotationStarts == lp = "select" /\ lp' = "irClose" /\ ctx' = "rot"
C17_OneRotationPerSignal ==
  /\ [][SignalReceived <=> RotationStarts]_vars
  /\ [][SignalReceived
         => \E p \in Procs : /\ pc[p] = "Rotate"
                             /\ pc' = [pc EXCEPT ![p] = "idle"]]_vars
  /\ [][(ctx' = "rot" /\ lp' = "irClose") => (RotationStarts \/ lp = "irClose")]_vars
\* a rotation asked for by Rotate has reached its open on the day the file
\* it rotates out was opened
C17_Witness ==
  /\ ctx = "rot" /\ lp = "irOpen"
  /\ filedate = now
  /\ calls["Rotate"] = 1
  /\ \A p \in Procs : pc[p] # "Rotate"

\* C18: with retention enabled and no failure, every record written so far
\* is still in the file at the path or in an archive.
Kept(m) ==
  \E n \in Names :
    /\ fs[n].exists
    /\ \E i \in 1..Len(fs[n].data) :
         fs[n].data[i].tpl = Format /\ fs[n].data[i].msg = m
C18_NoRecordLost ==
  (rotate_limit > 0 /\ Running /\ ~Failed)
    => \A i \in 1..Len(written) : Kept(written[i])

\* C19: when the loop writes a record, or writes the trailer and closes in
\* intRotate or in its closing function, the handle it uses is open.
C19_ActsOnOpenHandle ==
  [][(lp \in {"write", "irClose", "defer"} /\ lp' # lp /\ file # 0)
       => IsOpen(file)]_vars

\* C20: once the loop has ended, a caller standing in Rotate stays there and
\* nothing leaves the record queue; a LogWrite completes only while the
\* queue has room (after a fail-stop with the channel open and room, a
\* waiting send can complete), and with the queue full a caller standing in
\* LogWrite stays there and no record enters the queue.
Full == Len(rec) = LogBufferLength
C20_BlockedAfterLoopEnd ==
  /\ [][lp = "done"
         => /\ \A p \in Procs : pc[p] = "Rotate" => pc'[p] = "Rotate"
            /\ Len(rec') >= Len(rec)
            /\ lp' = "done"]_vars
  /\ [][(lp = "done" /\ Full)
         => /\ \A p \in Procs : pc[p] = "LogWrite" => pc'[p] = "LogWrite"
            /\ rec' = rec /\ enq' = enq]_vars
  /\ [](\A p \in Procs :
          (lp = "done" /\ Failed /\ Running /\ ~recClosed /\ ~Full
             /\ pc[p] = "LogWrite") => ENABLED LogWrite(p))
\* the loop has ended after a failure, the queue is full and open, and a
\* caller stands in LogWrite
C20_Witness ==
  /\ lp = "done" /\ Failed /\ Running
  /\ Full /\ ~recClosed
  /\ \E p \in Procs : pc[p] = "LogWrite"

====
